---- MODULE Spec2Model ----
(***************************************************************************)
(* Model of the adaptive upload gateway of src/app.js: the storage         *)
(* selector, the multer receiver configured by adaptiveUpload, the         *)
(* POST /upload route handler with its relay/timeout race, and the         *)
(* 'finish' logger of performanceMonitoring.                               *)
(*                                                                         *)
(* JavaScript runs each callback to completion, so one action is one       *)
(* callback together with the microtasks it schedules:                     *)
(*   Arrive       adaptiveUpload up to the call of upload() (lines 88-99)  *)
(*   FileStart    the receiver opens the file part (storage._handleFile)   *)
(*   ReceiveError / ReceiveLimit                                           *)
(*                the upload callback with an error (99-104)               *)
(*   ReceiveEmpty / ReceiveFile                                            *)
(*                the upload callback without error (105) and, through     *)
(*                next(), the route handler up to its await (132-154)      *)
(*   RelayResolve / RelayReject / TimerFire                                *)
(*                a participant of Promise.race settles; when it is the    *)
(*                first, the continuation of the await runs (155-171)      *)
(*   Finish       the res.on('finish') listener (120-126)                  *)
(*   Tick         the wall clock read by Date.now() advances               *)
(***************************************************************************)
EXTENDS Integers, Sequences, FiniteSets, TLC

\* ------------------------------------------------------------------ bounds
NumReqs == 2
\* the clock takes at most MaxMs steps of a millisecond between two waits of
\* the length of the timeout
MaxMs == 1

Reqs == 1..NumReqs

\* --------------------------------------------------------- program constants
\* MEMORY_THRESHOLD = 0.8, held as a percentage so that the ratio test is exact.
MEMORY_THRESHOLD_PCT == 80
\* 15 * 1024 * 1024
DISK_FALLBACK_SIZE == 15728640
\* limits.fileSize = 50 * 1024 * 1024
FILE_SIZE_LIMIT == 52428800
\* limits.files
FILES_LIMIT == 1
\* setTimeout(..., 180000)
TIMEOUT_MS == 180000

\* ------------------------------------------------------------------- inputs
Absent == -1
\* content-length headers a client may send (Absent: no header)
Headers == {Absent, 20000000}
\* os.freemem()/os.totalmem() samples; Throws: the probe raises
Throws == [free |-> -1, total |-> -1]
MemLow == [free |-> 900, total |-> 1000]
MemHigh == [free |-> 100, total |-> 1000]
MemSamples == {MemLow, MemHigh, Throws}
\* original file names, sizes of the first file part, number of file parts
Names == {"a.txt", "b.txt"}
\* Names are interchangeable: the first request's file is called "a.txt".
NamesOf(r) == IF r = 1 THEN {"a.txt"} ELSE Names
FileSizes == {1024, 52428801}
FileCounts == {1, 2}
\* objects the provider returns, messages it fails with
Metas == {"meta1", "meta2"}
RelayErrors == {"API key not valid"}

\* inputs of the selector on its own
SelSizes == {0, 1024, 15728639, 15728640, 15728641, 20000000, 20971520}
SelMem ==
  {[free |-> f, total |-> 1000] : f \in {0, 100, 199, 200, 201, 900, 1000}}
    \cup {[free |-> 1, total |-> 5], Throws}

\* -------------------------------------------------------------------- state
VARIABLES
  useMemoryStorage,  \* the module-level flag (line 51)
  now,               \* Date.now()
  uploads,           \* files of uploadsDir: records [path, by]
  pc,                \* per request: where its handling stands
  declared,          \* per request: contentLength (line 89)
  probeFailed,       \* per request: did the memory probe throw
  chosen,            \* per request: storage given to multer (line 93)
  got,               \* per request: what the receiver saw [nfiles, size]
  file,              \* per request: req.file
  tempFilePath,      \* per request: tempFilePath (line 137)
  relay,             \* per request: uploadPromise [state, value]
  timer,             \* per request: state of the setTimeout
  resp,              \* per request: the response sent
  sent,              \* per request: number of responses sent
  logged,            \* per request: Storage= of the 'Upload details' line
  trail,             \* per request: the steps taken, in order
  selArg, selMem, selRes   \* the selector on its own: inputs and result

vars == <<useMemoryStorage, now, uploads, pc, declared, probeFailed, chosen,
          got, file, tempFilePath, relay, timer, resp, sent, logged, trail,
          selArg, selMem, selRes>>

selVars == <<selArg, selMem, selRes>>

reqVars == <<useMemoryStorage, now, uploads, pc, declared, probeFailed, chosen,
             got, file, tempFilePath, relay, timer, resp, sent, logged, trail>>

\* ----------------------------------------------------------------- helpers
NoPath == <<>>
NoFile == [present |-> FALSE, originalname |-> "", buffer |-> FALSE, path |-> NoPath]
NoResp == [status |-> 0, body |-> <<>>]
NoRelay == [state |-> "none", value |-> ""]
NoTimer == [state |-> "none", at |-> 0]

\* path.join(uploadsDir, Date.now() + '-' + originalname)  (line 82)
DiskName(t, name) == <<"", t, name>>
\* path.join(uploadsDir, `temp-${Date.now()}-${originalname}`)  (line 141)
TempName(t, name) == <<"temp-", t, name>>

Exists(fs, p) == \E f \in fs : f.path = p

\* An unlink that goes by the original name alone, whatever the timestamp.
Unlink_byName(fs, p) == {f \in fs : f.path[3] # p[3]}

\* fs.unlinkSync / fs.unlink of an existing file
Unlink(fs, p) == {f \in fs : f.path # p}
\* fs.writeFileSync / fs.createWriteStream: creates or truncates
WriteFile(fs, p, r) == Unlink(fs, p) \cup {[path |-> p, by |-> r]}

\* req.headers['content-length'] ? parseInt(...) : 0   (lines 89-90)
ContentLength(h) == IF h = Absent THEN 0 ELSE h

\* The selector with >= in place of > in both comparisons.
shouldUseMemoryStorage_inclusive(fileSize, mem) ==
  IF mem = Throws THEN FALSE
  ELSE IF fileSize >= DISK_FALLBACK_SIZE
            \/ (mem.total - mem.free) * 100 >= MEMORY_THRESHOLD_PCT * mem.total
       THEN FALSE
       ELSE TRUE

\* The selector whose catch block answers true.
shouldUseMemoryStorage_catchTrue(fileSize, mem) ==
  IF mem = Throws THEN TRUE
  ELSE IF fileSize > DISK_FALLBACK_SIZE
            \/ (mem.total - mem.free) * 100 > MEMORY_THRESHOLD_PCT * mem.total
       THEN FALSE
       ELSE TRUE

\* shouldUseMemoryStorage (lines 54-74). The ratio 1 - free/total is compared
\* with the threshold exactly: (total - free)/total > 80/100.
shouldUseMemoryStorage(fileSize, mem) ==
  IF mem = Throws THEN FALSE
  ELSE IF fileSize > DISK_FALLBACK_SIZE
            \/ (mem.total - mem.free) * 100 > MEMORY_THRESHOLD_PCT * mem.total
       THEN FALSE
       ELSE TRUE

StorageType(flag) == IF flag THEN "memory" ELSE "disk"
StorageLabel(flag) == IF flag THEN "Memory" ELSE "Disk"

\* ------------------------------------------------- responses of the program
\* line 135
NoFileResponse == [status |-> 400, body |-> [error |-> "No file uploaded"]]
\* The upload callback without the test for a MulterError.
ReceiverErrorResponse_always500(isMulterError, message) ==
  [status |-> 500, body |-> [error |-> "Unknown error: " \o message]]

\* lines 100-104: a MulterError is a 400, any other receiver error a 500
ReceiverErrorResponse(isMulterError, message) ==
  IF isMulterError
    THEN [status |-> 400, body |-> [error |-> "Multer error: " \o message]]
    ELSE [status |-> 500, body |-> [error |-> "Unknown error: " \o message]]
\* lines 156-159 (res.json: status 200)
SuccessResponse(uploadedFile) ==
  [status |-> 200,
   body |-> [message |-> "File uploaded to Gemini Files API",
             metadata |-> uploadedFile]]
\* The catch block's response without its storageType.
FailureResponse_noStorageType(message, flag) ==
  [status |-> 500,
   body |-> [error |-> "File upload failed", details |-> message]]

\* lines 163-167
FailureResponse(message, flag) ==
  [status |-> 500,
   body |-> [error |-> "File upload failed",
             details |-> message,
             storageType |-> StorageType(flag)]]
\* line 168: the file the catch block removes, if any
CatchCleans(flag, f) == f.present /\ ~flag /\ f.path # NoPath

TimeoutMessage == "Gemini API upload timeout"
\* the messages of errors raised by node and by the libraries
EnoentMessage == "ENOENT: no such file or directory, unlink"
BadDataMessage == "The \"data\" argument must be of type string or an instance of Buffer"
BadFileMessage == "Unsupported file"
BoundaryMessage == "Multipart: Boundary not found"

\* multer's limits (lines 94-97): the message of the MulterError raised for a
\* request with n file parts whose first part has `size` bytes; "" when none.
LimitError(n, size) ==
  IF size > FILE_SIZE_LIMIT THEN "File too large"
  ELSE IF n > FILES_LIMIT THEN "Too many files"
  ELSE ""

\* fs.unlinkSync(p) throws ENOENT when the file is missing
UnlinkThrows(fs, p) == ~Exists(fs, p)

\* ---------------------------------------------------------- initial state
ReqInit ==
  /\ useMemoryStorage = TRUE
  /\ now = 0
  /\ uploads = {}
  /\ pc = [r \in Reqs |-> "idle"]
  /\ declared = [r \in Reqs |-> 0]
  /\ probeFailed = [r \in Reqs |-> FALSE]
  /\ chosen = [r \in Reqs |-> "none"]
  /\ got = [r \in Reqs |-> [nfiles |-> 0, size |-> 0]]
  /\ file = [r \in Reqs |-> NoFile]
  /\ tempFilePath = [r \in Reqs |-> NoPath]
  /\ relay = [r \in Reqs |-> NoRelay]
  /\ timer = [r \in Reqs |-> NoTimer]
  /\ resp = [r \in Reqs |-> NoResp]
  /\ sent = [r \in Reqs |-> 0]
  /\ logged = [r \in Reqs |-> "none"]
  /\ trail = [r \in Reqs |-> <<>>]

Init ==
  /\ ReqInit
  /\ selArg = 0
  /\ selMem = Throws
  /\ selRes = "unset"

\* ------------------------------------------------------------------ actions
\* The clock advances by a millisecond, or by the length of the timeout while
\* a timer that is set has not reached its time (so every timer can fire).
Tick ==
  /\ \/ now % TIMEOUT_MS < MaxMs /\ now' = now + 1
     \/ /\ \E r \in Reqs : /\ timer[r].state = "armed"
                           /\ now < timer[r].at + TIMEOUT_MS
        /\ now' = now + TIMEOUT_MS
  /\ UNCHANGED <<useMemoryStorage, uploads, pc, declared, probeFailed, chosen,
                 got, file, tempFilePath, relay, timer, resp, sent, logged,
                 trail, selVars>>

\* adaptiveUpload, lines 88-99. Requests are numbered in order of arrival.
Arrive(r) ==
  /\ pc[r] = "idle"
  /\ \A q \in Reqs : q < r => pc[q] # "idle"
  /\ \E h \in Headers, mem \in MemSamples :
       LET contentLength == ContentLength(h)
           decision == shouldUseMemoryStorage(contentLength, mem)
       IN /\ useMemoryStorage' = decision
          /\ declared' = [declared EXCEPT ![r] = contentLength]
          /\ probeFailed' = [probeFailed EXCEPT ![r] = (mem = Throws)]
          /\ chosen' = [chosen EXCEPT ![r] = StorageType(decision)]
  /\ pc' = [pc EXCEPT ![r] = "receiving"]
  /\ trail' = [trail EXCEPT ![r] = <<"Received">>]
  /\ UNCHANGED <<now, uploads, got, file, tempFilePath, relay, timer, resp,
                 sent, logged, selVars>>

\* The receiver meets the first file part and hands it to the storage engine
\* it was built with: diskStorage names and creates the file (lines 77-84),
\* memoryStorage collects a buffer.
FileStart(r) ==
  /\ pc[r] = "receiving"
  /\ \E name \in NamesOf(r) :
       IF chosen[r] = "disk"
         THEN /\ uploads' = WriteFile(uploads, DiskName(now, name), r)
              /\ file' = [file EXCEPT ![r] =
                   [present |-> TRUE, originalname |-> name, buffer |-> FALSE,
                    path |-> DiskName(now, name)]]
         ELSE /\ uploads' = uploads
              /\ file' = [file EXCEPT ![r] =
                   [present |-> TRUE, originalname |-> name, buffer |-> TRUE,
                    path |-> NoPath]]
  /\ pc' = [pc EXCEPT ![r] = "buffering"]
  /\ UNCHANGED <<useMemoryStorage, now, declared, probeFailed, chosen, got,
                 tempFilePath, relay, timer, resp, sent, logged, trail, selVars>>

\* The catch block, lines 160-171, entered with err.message = message: the
\* response it sends, the directory it leaves, the steps it adds.
CatchResponse(message) == FailureResponse(message, useMemoryStorage)
CatchRemoves(r, fs) ==
  /\ CatchCleans(useMemoryStorage, file[r])
  /\ ~UnlinkThrows(fs, file[r].path)
CatchUploads(r, fs) ==
  IF CatchRemoves(r, fs) THEN Unlink(fs, file[r].path) ELSE fs
CatchTrail(r, fs) ==
  IF CatchRemoves(r, fs) THEN <<"Responded", "CleanedUp">>
  ELSE <<"Responded">>

\* The request is not multipart or its boundary is missing: the receiver
\* calls back with a plain Error before any part is read (lines 102-103).
ReceiveError(r) ==
  /\ pc[r] = "receiving"
  /\ resp' = [resp EXCEPT ![r] = ReceiverErrorResponse(FALSE, BoundaryMessage)]
  /\ sent' = [sent EXCEPT ![r] = @ + 1]
  /\ pc' = [pc EXCEPT ![r] = "responded"]
  /\ trail' = [trail EXCEPT ![r] = @ \o <<"Rejected", "Responded">>]
  /\ UNCHANGED <<useMemoryStorage, now, uploads, declared, probeFailed, chosen,
                 got, file, tempFilePath, relay, timer, logged, selVars>>

\* A limit of lines 94-97 is exceeded: the receiver removes what it stored
\* and calls back with a MulterError (lines 100-101); next() is not called.
ReceiveLimit(r) ==
  /\ pc[r] = "buffering"
  /\ \E n \in FileCounts, size \in FileSizes :
       /\ LimitError(n, size) # ""
       /\ got' = [got EXCEPT ![r] = [nfiles |-> n, size |-> size]]
       /\ resp' = [resp EXCEPT ![r] =
                     ReceiverErrorResponse(TRUE, LimitError(n, size))]
  /\ uploads' = IF file[r].path # NoPath THEN Unlink(uploads, file[r].path)
                ELSE uploads
  /\ file' = [file EXCEPT ![r] = NoFile]
  /\ sent' = [sent EXCEPT ![r] = @ + 1]
  /\ pc' = [pc EXCEPT ![r] = "responded"]
  /\ trail' = [trail EXCEPT ![r] = @ \o <<"Rejected", "Responded">>]
  /\ UNCHANGED <<useMemoryStorage, now, declared, probeFailed, chosen,
                 tempFilePath, relay, timer, logged, selVars>>

\* A catch block that cleans up and ends without sending its response.
Caught_silent(r, message, steps) ==
  /\ UNCHANGED <<resp, sent>>
  /\ uploads' = CatchUploads(r, uploads)
  /\ pc' = [pc EXCEPT ![r] = "responded"]
  /\ trail' = [trail EXCEPT ![r] = @ \o steps \o CatchTrail(r, uploads)]

\* The catch block entered with err.message = message, after `steps`.
Caught(r, message, steps) ==
  /\ resp' = [resp EXCEPT ![r] = CatchResponse(message)]
  /\ sent' = [sent EXCEPT ![r] = @ + 1]
  /\ uploads' = CatchUploads(r, uploads)
  /\ pc' = [pc EXCEPT ![r] = "responded"]
  /\ trail' = [trail EXCEPT ![r] = @ \o steps \o CatchTrail(r, uploads)]

\* The handler without its test for a missing file.
NoFileUploaded_never(f) == FALSE

\* line 134: if (!req.file)
NoFileUploaded(f) == ~f.present

\* The route handler up to its await, lines 132-154, entered through next()
\* after `steps`. With the flag set the buffer is written to a temp file;
\* writeFileSync throws a TypeError when req.file has no buffer (node 14 and
\* later). With the flag clear the path of req.file is used; the provider's
\* client rejects an undefined path at once, after the timer was set.
Handler(r, steps) ==
  LET f == file[r]
      temp == TempName(now, f.originalname)
  IN
  IF NoFileUploaded(f)
    THEN /\ resp' = [resp EXCEPT ![r] = NoFileResponse]
         /\ sent' = [sent EXCEPT ![r] = @ + 1]
         /\ pc' = [pc EXCEPT ![r] = "responded"]
         /\ trail' = [trail EXCEPT ![r] = @ \o steps \o <<"Handler", "Responded">>]
         /\ UNCHANGED <<uploads, tempFilePath, relay, timer>>
    ELSE IF useMemoryStorage
      THEN /\ tempFilePath' = [tempFilePath EXCEPT ![r] = temp]
           /\ IF f.buffer
                THEN /\ uploads' = WriteFile(uploads, temp, r)
                     /\ relay' = [relay EXCEPT ![r].state = "pending"]
                     /\ timer' = [timer EXCEPT ![r] = [state |-> "armed", at |-> now]]
                     /\ pc' = [pc EXCEPT ![r] = "racing"]
                     /\ trail' = [trail EXCEPT ![r] = @ \o steps \o
                          <<"Handler", "Materialized", "RelayCalled">>]
                     /\ UNCHANGED <<resp, sent>>
                ELSE /\ Caught(r, BadDataMessage, steps \o <<"Handler", "Failed">>)
                     /\ UNCHANGED <<relay, timer>>
      ELSE /\ tempFilePath' = [tempFilePath EXCEPT ![r] = f.path]
           /\ timer' = [timer EXCEPT ![r] = [state |-> "armed", at |-> now]]
           /\ IF f.path # NoPath
                THEN /\ relay' = [relay EXCEPT ![r].state = "pending"]
                     /\ pc' = [pc EXCEPT ![r] = "racing"]
                     /\ trail' = [trail EXCEPT ![r] = @ \o steps \o
                          <<"Handler", "RelayCalled">>]
                     /\ UNCHANGED <<uploads, resp, sent>>
                ELSE /\ relay' = [relay EXCEPT ![r] =
                          [state |-> "rejected", value |-> BadFileMessage]]
                     /\ Caught(r, BadFileMessage,
                               steps \o <<"Handler", "RelayCalled", "Failed">>)

\* The form ends without a file part: the callback of line 99 gets no error
\* and calls next() (line 105).
ReceiveEmpty(r) ==
  /\ pc[r] = "receiving"
  /\ Handler(r, <<>>)
  /\ UNCHANGED <<useMemoryStorage, now, declared, probeFailed, chosen, got,
                 file, logged, selVars>>

\* The form ends with one file within the limits: the callback of line 99
\* gets no error and calls next() (line 105).
ReceiveFile(r) ==
  /\ pc[r] = "buffering"
  /\ \E n \in FileCounts, size \in FileSizes :
       /\ LimitError(n, size) = ""
       /\ got' = [got EXCEPT ![r] = [nfiles |-> n, size |-> size]]
  /\ Handler(r, <<"Buffered">>)
  /\ UNCHANGED <<useMemoryStorage, now, declared, probeFailed, chosen, file,
                 logged, selVars>>

\* The rest of the handler once the race settled with the provider's object:
\* lines 155-159, and the catch when unlinkSync throws.
Uploaded(r, uploadedFile) ==
  IF UnlinkThrows(uploads, tempFilePath[r])
    THEN Caught(r, EnoentMessage, <<"Relayed", "CleanupFailed">>)
    ELSE /\ uploads' = Unlink(uploads, tempFilePath[r])
         /\ resp' = [resp EXCEPT ![r] = SuccessResponse(uploadedFile)]
         /\ sent' = [sent EXCEPT ![r] = @ + 1]
         /\ pc' = [pc EXCEPT ![r] = "responded"]
         /\ trail' = [trail EXCEPT ![r] = @ \o
                        <<"Relayed", "CleanedUp", "Responded">>]

\* A late settlement that runs the cleanup once more.
Ignored_cleansAgain == uploads' = {} /\ UNCHANGED <<resp, sent, pc, trail>>

\* A settled promise that lost the race: nobody listens any more.
Ignored == UNCHANGED <<uploads, resp, sent, pc, trail>>

\* ai.files.upload resolves with the provider's object.
RelayResolve(r) ==
  /\ relay[r].state = "pending"
  /\ \E m \in Metas :
       IF pc[r] = "racing"
         THEN /\ relay' = [relay EXCEPT ![r] = [state |-> "resolved", value |-> m]]
              /\ Uploaded(r, m)
         ELSE /\ relay' = [relay EXCEPT ![r].state = "resolved"]
              /\ Ignored
  /\ UNCHANGED <<useMemoryStorage, now, declared, probeFailed, chosen, got,
                 file, tempFilePath, timer, logged, selVars>>

\* ai.files.upload rejects.
RelayReject(r) ==
  /\ relay[r].state = "pending"
  /\ \E e \in RelayErrors :
       IF pc[r] = "racing"
         THEN /\ relay' = [relay EXCEPT ![r] = [state |-> "rejected", value |-> e]]
              /\ Caught(r, e, <<"Failed">>)
         ELSE /\ relay' = [relay EXCEPT ![r].state = "rejected"]
              /\ Ignored
  /\ UNCHANGED <<useMemoryStorage, now, declared, probeFailed, chosen, got,
                 file, tempFilePath, timer, logged, selVars>>

\* The timer of line 152 fires, TIMEOUT_MS after it was set.
TimerFire(r) ==
  /\ timer[r].state = "armed"
  /\ now >= timer[r].at + TIMEOUT_MS
  /\ timer' = [timer EXCEPT ![r].state = "fired"]
  /\ IF pc[r] = "racing" THEN Caught(r, TimeoutMessage, <<"TimedOut">>)
     ELSE Ignored
  /\ UNCHANGED <<useMemoryStorage, now, declared, probeFailed, chosen, got,
                 file, tempFilePath, relay, logged, selVars>>

\* res.on('finish'), lines 120-126: the 'Upload details' line is written
\* for a request that has a file, with the flag as it is then.
Finish(r) ==
  /\ pc[r] = "responded"
  /\ pc' = [pc EXCEPT ![r] = "done"]
  /\ logged' = [logged EXCEPT ![r] =
       IF file[r].present THEN StorageLabel(useMemoryStorage) ELSE "none"]
  /\ UNCHANGED <<useMemoryStorage, now, uploads, declared, probeFailed, chosen,
                 got, file, tempFilePath, relay, timer, resp, sent, trail,
                 selVars>>

Next ==
  \/ Tick
  \/ \E r \in Reqs :
       \/ Arrive(r)
       \/ FileStart(r)
       \/ ReceiveError(r)
       \/ ReceiveLimit(r)
       \/ ReceiveEmpty(r)
       \/ ReceiveFile(r)
       \/ RelayResolve(r)
       \/ RelayReject(r)
       \/ TimerFire(r)
       \/ Finish(r)

Spec == Init /\ [][Next]_vars

\* The receiver finishes: a request whose body is being read gets its next
\* receiver event (the file part starts, the form ends, or an error is raised).
Receive(r) ==
  \/ FileStart(r)
  \/ ReceiveError(r)
  \/ ReceiveLimit(r)
  \/ ReceiveEmpty(r)
  \/ ReceiveFile(r)

\* Time passes, the receiver finishes and a timer whose time has come fires
\* (setTimeout, line 152). Nothing is assumed about the provider: the relay
\* call may stay pending for ever.
Fairness ==
  /\ WF_vars(Tick)
  /\ \A r \in Reqs : WF_vars(Receive(r)) /\ WF_vars(TimerFire(r))

FairSpec == Spec /\ Fairness

\* ------------------------------------------------ the selector on its own
SelInit ==
  /\ ReqInit
  /\ selArg \in SelSizes
  /\ selMem \in SelMem
  /\ selRes = "unset"

SelApply ==
  /\ selRes = "unset"
  /\ selRes' = StorageType(shouldUseMemoryStorage(selArg, selMem))
  /\ UNCHANGED <<selArg, selMem, reqVars>>

SelNext == SelApply

SelSpec == SelInit /\ [][SelNext]_vars

\* ------------------------------------------------------------------ claims
InTrail(r, step) == \E i \in DOMAIN trail[r] : trail[r][i] = step
Completed(r) == pc[r] \in {"responded", "done"}
OwnFiles(r) == {f \in uploads : f.by = r}
ErrorShape == {"error", "details", "storageType"}

\* C1: once a request has completed, by any outcome, no file that it created
\* (disk buffer or temp materialization) remains in the uploads directory.
C1_NoResidueAfterCompletion ==
  \A r \in Reqs : Completed(r) => OwnFiles(r) = {}

\* C2: the selector returns Memory exactly when the declared size is at most
\* 15 MiB and the usage ratio at most 0.80; in particular at exactly 15 MiB
\* and exactly 0.80 it returns Memory.
C2_SelectorThresholds ==
  (selRes # "unset" /\ selMem # Throws) =>
    /\ (selArg <= 15 * 1024 * 1024
          /\ (selMem.total - selMem.free) * 10 <= 8 * selMem.total)
         => selRes = "memory"
    /\ (selArg > 15 * 1024 * 1024
          \/ (selMem.total - selMem.free) * 10 > 8 * selMem.total)
         => selRes = "disk"
C2_Witness ==
  /\ selRes = "memory"
  /\ selArg = 15 * 1024 * 1024
  /\ (selMem.total - selMem.free) * 10 = 8 * selMem.total

\* C3: when the memory probe throws, the selector answers Disk for every
\* declared size and the request goes on to be buffered on disk: no response
\* is sent for the failure, and the receiver writes the file to disk.
C3_ProbeFailureFallsBackToDisk ==
  \A r \in Reqs : probeFailed[r] =>
    /\ chosen[r] = "disk"
    /\ pc[r] \in {"receiving", "buffering"} => sent[r] = 0
    /\ pc[r] = "buffering" =>
         /\ ~file[r].buffer
         /\ file[r].path = DiskName(file[r].path[2], file[r].originalname)
C3_Witness ==
  \E r \in Reqs :
    probeFailed[r] /\ declared[r] = 0 /\ pc[r] = "buffering" /\ sent[r] = 0

\* C4: when the timer fires before the relay call settled, the response is a
\* 500 whose details is "Gemini API upload timeout", and the file that was
\* handed to the relay call has been removed.
C4_TimeoutRespondsAndCleans ==
  \A r \in Reqs : (Completed(r) /\ InTrail(r, "TimedOut")) =>
    /\ resp[r].status = 500
    /\ resp[r].body.details = TimeoutMessage
    /\ ~Exists(uploads, tempFilePath[r])

\* C5: the storage mode a request reports (storageType of its 500 response,
\* Storage= of its log line) is the mode the selector chose for that request;
\* a request that declared 20 MB reports disk.
C5_ReportedModeIsChosenMode ==
  \A r \in Reqs :
    /\ (sent[r] > 0 /\ "storageType" \in DOMAIN resp[r].body) =>
         /\ resp[r].body.storageType = chosen[r]
         /\ declared[r] = 20000000 => resp[r].body.storageType = "disk"
    /\ logged[r] # "none" =>
         /\ logged[r] = StorageLabel(chosen[r] = "memory")
         /\ declared[r] = 20000000 => logged[r] = "Disk"

\* C6: a failing deletion of the temp file never changes the response: when
\* the relay call succeeded and unlink throws, the client still gets the 200
\* with the provider's metadata.
C6_CleanupFailureIsSilent ==
  \A r \in Reqs : (Completed(r) /\ InTrail(r, "CleanupFailed")) =>
    /\ resp[r].status = 200
    /\ resp[r].body.metadata = relay[r].value

\* C7: the handling of a request without a file answers 400 with
\* {error: "No file uploaded"} and writes no file, deletes no file, and
\* starts neither a relay call nor a timer, in either storage mode.
C7_NoFileNoActivity ==
  [][\A r \in Reqs :
       (pc[r] = "receiving" /\ Completed(r)' /\ InTrail(r, "Handler")') =>
         /\ resp'[r].status = 400
         /\ resp'[r].body = [error |-> "No file uploaded"]
         /\ sent'[r] = 1
         /\ uploads' = uploads
         /\ OwnFiles(r) = {}
         /\ relay'[r].state = "none"
         /\ timer'[r].state = "none"
         /\ tempFilePath'[r] = NoPath]_vars
C7_Witness ==
  \E r \in Reqs :
    /\ Completed(r) /\ ~file[r].present /\ InTrail(r, "Handler")
    /\ chosen[r] = "disk"
    /\ \E q \in Reqs : q # r /\ chosen[q] = "memory" /\ OwnFiles(q) # {}

\* C8: a request with more than one file or a file above 50 MiB is answered
\* 400 with an error naming the limit; the route handler is not entered, no
\* relay call is made and nothing of the request is left on disk.
C8_LimitViolationRejected ==
  \A r \in Reqs :
    (Completed(r) /\ (got[r].nfiles > 1 \/ got[r].size > 50 * 1024 * 1024)) =>
      /\ resp[r].status = 400
      /\ resp[r].body =
           [error |-> IF got[r].size > 50 * 1024 * 1024
                        THEN "Multer error: File too large"
                        ELSE "Multer error: Too many files"]
      /\ sent[r] = 1
      /\ ~InTrail(r, "Handler")
      /\ relay[r].state = "none"
      /\ timer[r].state = "none"
      /\ OwnFiles(r) = {}
C8_Witness ==
  \E r \in Reqs :
    /\ Completed(r) /\ got[r].size > 50 * 1024 * 1024
    /\ chosen[r] = "disk" /\ declared[r] = 0

\* C9 as stated: every error of a request is turned into exactly one response
\* with status 400 or 500, and every 500 has the body {error, details,
\* storageType}.
Errored(r) ==
  \/ InTrail(r, "Rejected") \/ InTrail(r, "Failed")
  \/ InTrail(r, "TimedOut") \/ InTrail(r, "CleanupFailed")
C9_Original ==
  \A r \in Reqs :
    /\ sent[r] <= 1
    /\ Errored(r) =>
         /\ sent[r] = 1
         /\ resp[r].status \in {400, 500}
         /\ resp[r].status = 500 => DOMAIN resp[r].body = ErrorShape

\* C9 amended: every error of a request is turned into exactly one response
\* with status 400 or 500; a 500 sent by the route handler has the body
\* {error, details, storageType}, a 500 sent by the upload callback for a
\* receiver error that is no MulterError has the body {error} only.
C9_ErrorsBecomeOneResponse ==
  \A r \in Reqs :
    /\ sent[r] <= 1
    /\ Errored(r) =>
         /\ sent[r] = 1
         /\ Completed(r)
         /\ resp[r].status \in {400, 500}
         /\ (resp[r].status = 500 /\ InTrail(r, "Handler"))
              => DOMAIN resp[r].body = ErrorShape
         /\ (resp[r].status = 500 /\ ~InTrail(r, "Handler"))
              => DOMAIN resp[r].body = {"error"}
C9_Witness ==
  /\ \E r \in Reqs : InTrail(r, "TimedOut") /\ resp[r].status = 500
  /\ \E r \in Reqs : InTrail(r, "Rejected") /\ resp[r].status = 500

\* C10: when the request has one file and the relay call succeeds before the
\* timer fires, the response is 200 with the message "File uploaded to Gemini
\* Files API" and the provider's object as metadata, in both modes, and a
\* request buffered in memory leaves no file behind.
C10_SuccessResponse ==
  \A r \in Reqs : (Completed(r) /\ InTrail(r, "Relayed")) =>
    /\ resp[r].status = 200
    /\ resp[r].body = [message |-> "File uploaded to Gemini Files API",
                       metadata |-> relay[r].value]
    /\ chosen[r] = "memory" => OwnFiles(r) = {}

\* C11: repeating the same upload gives two independent requests: when no
\* file name is shared between them, each makes its own relay call with its
\* own file, and each whose relay call resolves first ends with the 200
\* response carrying its own provider object and with none of its files left.
ArtifactPaths(r) == {file[r].path, tempFilePath[r]} \ {NoPath}
SameUpload(r, q) ==
  /\ r # q
  /\ Completed(r) /\ Completed(q)
  /\ file[r].present /\ file[q].present
  /\ file[r].originalname = file[q].originalname
C11_RepeatedUploadsIndependent ==
  \A r, q \in Reqs :
    (SameUpload(r, q) /\ ArtifactPaths(r) \cap ArtifactPaths(q) = {}) =>
      /\ InTrail(r, "RelayCalled")
      /\ tempFilePath[r] # NoPath
      /\ InTrail(r, "Relayed") =>
           /\ resp[r] = SuccessResponse(relay[r].value)
           /\ OwnFiles(r) = {}

\* C12: on every path of a request that created a file in uploads (the
\* receiver's disk buffer or the materialized temp file), the file is deleted
\* before the response is sent: CleanedUp comes before Responded in the
\* request's order of steps, also when the relay call fails or times out.
Before(r, a, b) ==
  \E i, j \in DOMAIN trail[r] : i < j /\ trail[r][i] = a /\ trail[r][j] = b
CreatedArtifact(r) == InTrail(r, "Materialized") \/ file[r].path # NoPath
C12_CleanupBeforeResponse ==
  \A r \in Reqs : (InTrail(r, "Responded") /\ CreatedArtifact(r)) =>
    Before(r, "CleanedUp", "Responded")

\* C13: the storage mode chosen when a request arrives governs every later
\* step of that request: its handler materializes a temp file exactly when
\* the receiver buffered this request's file in memory, and takes
\* req.file.path exactly when the receiver wrote this request's file to disk,
\* whatever other requests do in between.
Materializes(r) == tempFilePath[r] # NoPath /\ tempFilePath[r][1] = "temp-"
UsesFilePath(r) == ~Materializes(r) /\ tempFilePath[r] = file[r].path
C13_OneModePerRequest ==
  \A r \in Reqs : (InTrail(r, "Handler") /\ file[r].present) =>
    /\ file[r].buffer <=> chosen[r] = "memory"
    /\ Materializes(r) <=> file[r].buffer
    /\ UsesFilePath(r) <=> ~file[r].buffer

\* C14: at every step in which a request initiates the external upload call,
\* the path it passes is defined and names a file that is in uploads at that
\* moment and holds this request's content, in both storage modes and under
\* any interleaving of requests.
InitiatesRelay(r) == ~InTrail(r, "RelayCalled") /\ InTrail(r, "RelayCalled")'
C14_RelayedPathExists ==
  [][\A r \in Reqs : InitiatesRelay(r) =>
       /\ tempFilePath'[r] # NoPath
       /\ [path |-> tempFilePath'[r], by |-> r] \in uploads']_vars

\* C15: when the receiver wrote a request's file to disk and the handling of
\* the request failed before the relay call was initiated, none of the files
\* the request wrote is left in uploads once the request has been answered.
FailedBeforeRelay(r) ==
  Completed(r) /\ Errored(r) /\ ~InTrail(r, "RelayCalled")
C15_DiskFileRemovedOnEarlyFailure ==
  \A r \in Reqs : (chosen[r] = "disk" /\ FailedBeforeRelay(r)) =>
    OwnFiles(r) = {}

\* C16: in the race of the relay call against the timer, the one that settles
\* first decides the request's outcome and leaves the other as it is (still
\* pending, still set); when the other settles later, no response is sent or
\* changed, no file is created or deleted and no request changes its course.
SettlesLate(r) ==
  Completed(r) /\ (relay'[r] # relay[r] \/ timer'[r] # timer[r])
Decides(r) == pc[r] = "racing" /\ pc'[r] # "racing"
RelayWins(r) ==
  /\ relay[r].state = "pending" /\ relay'[r].state = "resolved"
  /\ timer'[r] = timer[r]
  /\ InTrail(r, "Relayed")'
  /\ \/ resp'[r] = SuccessResponse(relay'[r].value)
     \/ InTrail(r, "CleanupFailed")'
RelayFails(r) ==
  /\ relay[r].state = "pending" /\ relay'[r].state = "rejected"
  /\ timer'[r] = timer[r]
  /\ resp'[r] = FailureResponse(relay'[r].value, useMemoryStorage)
TimerWins(r) ==
  /\ timer[r].state = "armed" /\ timer'[r].state = "fired"
  /\ relay'[r] = relay[r]
  /\ resp'[r] = FailureResponse(TimeoutMessage, useMemoryStorage)
C16_FirstSettlerDecides ==
  [][\A r \in Reqs :
       /\ SettlesLate(r) => UNCHANGED <<resp, sent, uploads, pc, trail>>
       /\ Decides(r) =>
            /\ RelayWins(r) \/ RelayFails(r) \/ TimerWins(r)
            /\ sent'[r] = 1]_vars
C16_Witness ==
  \E r, q \in Reqs :
    /\ InTrail(r, "TimedOut") /\ relay[r].state \in {"resolved", "rejected"}
    /\ InTrail(q, "Relayed") /\ timer[q].state = "fired"
    /\ sent[r] = 1 /\ sent[q] = 1

\* C17: every request that was taken up is answered exactly once: a response
\* is never sent twice, a completed request has got its one response, and,
\* the receiver finishing and the timer firing, every request that arrived
\* is answered in the end.
Answered(r) == Completed(r) /\ sent[r] = 1
\* (An accepted request stays accepted and an answered one stays answered, so
\* "each accepted request is answered in the end" is "again and again, every
\* accepted request has been answered".)
Accepted(r) == pc[r] # "idle"
C17_ExactlyOneResponse ==
  /\ [](\A r \in Reqs : sent[r] <= 1 /\ (Completed(r) <=> sent[r] = 1))
  /\ [][\A r \in Reqs : (Accepted(r) => Accepted(r)')
                         /\ (Answered(r) => Answered(r)')]_vars
  /\ []<>(\A r \in Reqs : Accepted(r) => Answered(r))
C17_Witness ==
  \E r, q \in Reqs :
    /\ r # q
    /\ Answered(r) /\ InTrail(r, "TimedOut") /\ relay[r].state = "pending"
    /\ Answered(q) /\ pc[q] = "done"

\* C18 as stated: a file that leaves uploads or is overwritten in a step was
\* created by the request that takes the step, and the path a request hands
\* to the relay call never names a file written by another request, also
\* when two concurrent requests upload files with the same original name.
Acts(r) == pc'[r] # pc[r]
Touched == uploads \ uploads'
RelaysFileOf(r, q) ==
  /\ InitiatesRelay(r)
  /\ [path |-> tempFilePath'[r], by |-> q] \in uploads'
C18_Original ==
  [][/\ \A f \in Touched : \E r \in Reqs : Acts(r) /\ f.by = r
     /\ \A r, q \in Reqs : RelaysFileOf(r, q) => q = r]_vars

\* C18: a request deletes, overwrites and relays only at the paths it made
\* itself (its disk name of line 82, its temp name of line 141); a file of
\* another request is touched only where both requests made the same path,
\* that is the same kind of name with the same original name in the same
\* millisecond. Two concurrent requests with the same original name and
\* different timestamps leave each other's files alone.
MadePaths(r) == ArtifactPaths(r) \cup ArtifactPaths(r)'
C18_TouchesOnlyOwnPaths ==
  [][/\ \A f \in Touched :
          \E r \in Reqs : Acts(r) /\ (f.by = r \/ f.path \in MadePaths(r))
     /\ \A r, q \in Reqs : RelaysFileOf(r, q) =>
          \/ q = r
          \/ tempFilePath'[r] \in ArtifactPaths(q)]_vars
C18_Witness ==
  \E r, q \in Reqs :
    /\ r # q
    /\ file[r].originalname = file[q].originalname
    /\ InTrail(r, "CleanedUp")
    /\ ~Completed(q) /\ InTrail(q, "RelayCalled")
    /\ ArtifactPaths(r) \cap ArtifactPaths(q) = {}
    /\ \E f \in OwnFiles(q) : f.path = tempFilePath[q]

====
